---- MODULE Spec2Model ----
(***************************************************************************)
(* Model of the perfume ordering server (the Express application with the  *)
(* POST /order-perfume and GET /orders handlers and the Excel store        *)
(* initializer).  Every await of a handler is an interleaving point, so a  *)
(* handler is a sequence of actions, one per stretch of synchronous code.  *)
(***************************************************************************)
EXTENDS Integers, Sequences, FiniteSets

(***************************************************************************)
(* Bounds of the model.                                                    *)
(***************************************************************************)
MaxReqs == 2
MaxBoots == 2
MaxObjs == 2
MaxQuantity == 2
MaxCheckouts == 2

ReqIds == 1..MaxReqs

(***************************************************************************)
(* JavaScript values: undefined, numbers and strings.                      *)
(***************************************************************************)
Undef == [t |-> "undef", n |-> 0, s |-> ""]
Num(n) == [t |-> "num", n |-> n, s |-> ""]
Str(s) == [t |-> "str", n |-> 0, s |-> s]

\* a truthiness that takes the string "0" for the number 0
Truthy_ZeroString(v) ==
  CASE v.t = "undef" -> FALSE
    [] v.t = "num" -> v.n # 0
    [] v.t = "str" -> v.s # "" /\ v.s # "0"

\* !v is false exactly for the truthy values
Truthy(v) ==
  CASE v.t = "undef" -> FALSE
    [] v.t = "num" -> v.n # 0
    [] v.t = "str" -> v.s # ""

Digit(d) ==
  CASE d = 0 -> "0" [] d = 1 -> "1" [] d = 2 -> "2" [] d = 3 -> "3"
    [] d = 4 -> "4" [] d = 5 -> "5" [] d = 6 -> "6" [] d = 7 -> "7"
    [] d = 8 -> "8" [] d = 9 -> "9"

RECURSIVE NatToString(_)
NatToString(n) ==
  IF n < 10 THEN Digit(n) ELSE NatToString(n \div 10) \o Digit(n % 10)

\* v.toString() of a number or a string, as a JavaScript string
toString(v) ==
  IF v.t = "num" THEN NatToString(v.n) ELSE v.s

\* new Date().toLocaleString() at instant n
LocaleString(n) == Str("T" \o NatToString(n))

(***************************************************************************)
(* The fixed columns of the Orders sheet.                                  *)
(***************************************************************************)
fixedColumns ==
  << [header |-> "Name", key |-> "name"],
     [header |-> "Phone", key |-> "phone"],
     [header |-> "Perfume ID", key |-> "perfumeId"],
     [header |-> "Perfume Name", key |-> "perfumeName"],
     [header |-> "Quantity", key |-> "quantity"],
     [header |-> "Delivery Address", key |-> "deliveryAddress"],
     [header |-> "Date", key |-> "date"] >>

Headers(cols) == [i \in 1..Len(cols) |-> cols[i].header]

CanonicalHeaders == Headers(fixedColumns)

(***************************************************************************)
(* The store file orders.xlsx and the catalog file perfumes.json.          *)
(***************************************************************************)
AbsentFile == [kind |-> "absent", sheet |-> FALSE, columns |-> <<>>, rows |-> <<>>]
CorruptFile == [kind |-> "corrupt", sheet |-> FALSE, columns |-> <<>>, rows |-> <<>>]
XlsxFile(wb) ==
  [kind |-> "xlsx", sheet |-> wb.sheet, columns |-> wb.columns, rows |-> wb.rows]

EmptyWorkbook == [sheet |-> FALSE, columns |-> <<>>, rows |-> <<>>]

\* workbook.xlsx.readFile(excelPath): the workbook, or the error it throws
ReadFileError(f) ==
  CASE f.kind = "absent" -> "ENOENT: no such file or directory"
    [] f.kind = "corrupt" -> "Can't find end of central directory"
    [] OTHER -> ""

ReadFileWorkbook(f) == [sheet |-> f.sheet, columns |-> f.columns, rows |-> f.rows]

\* an addRow that puts the row first
addRow_Prepend(wb, rowData) == [wb EXCEPT !.rows = << rowData >> \o @]

\* sheet.addRow(rowData)
addRow(wb, rowData) == [wb EXCEPT !.rows = Append(@, rowData)]

\* workbook.addWorksheet("Orders") followed by sheet.columns = cols
addWorksheet(wb, cols) == [wb EXCEPT !.sheet = TRUE, !.columns = Headers(cols)]

NoCatalog == [kind |-> "absent", items |-> <<>>]

\* fs.readFile(perfumesPath) followed by JSON.parse: the error thrown, if any
LoadPerfumesError(c) ==
  CASE c.kind = "absent" -> "ENOENT: no such file or directory"
    [] c.kind = "badjson" -> "Unexpected end of JSON input"
    [] OTHER -> ""

(***************************************************************************)
(* The inputs the model draws from.                                        *)
(***************************************************************************)
Product(id, name) == [id |-> id, name |-> name]
NoPerfume == Product(Undef, Undef)

Catalogs ==
  { NoCatalog,
    [kind |-> "json",
     items |-> << Product(Num(7), Str("Rose")), Product(Str("2"), Undef) >>] }

OtherHeaders == << "A", "B", "C", "D", "E", "F", "G" >>

\* the states orders.xlsx can be found in, before startup or after an edit
\* made outside the server
StoreFiles ==
  { AbsentFile, CorruptFile,
    XlsxFile(EmptyWorkbook),
    XlsxFile([sheet |-> TRUE, columns |-> CanonicalHeaders, rows |-> <<>>]),
    XlsxFile([sheet |-> TRUE, columns |-> <<>>, rows |-> <<>>]),
    XlsxFile([sheet |-> TRUE, columns |-> SubSeq(OtherHeaders, 1, 5), rows |-> <<>>]),
    XlsxFile([sheet |-> TRUE, columns |-> OtherHeaders, rows |-> <<>>]) }

Environments ==
  [EMAIL_USER : {Undef, Str("shop@mail")},
   EMAIL_PASS : {Undef, Str("pw")},
   ACCESS_KEY : {Undef, Str("k1")}]

Body(name, phone, perfumeId, quantity, deliveryAddress, extraFields) ==
  [name |-> name, phone |-> phone, perfumeId |-> perfumeId,
   quantity |-> quantity, deliveryAddress |-> deliveryAddress,
   extraFields |-> extraFields]

ExtraSent ==
  << [key |-> "perfumeName", value |-> Str("Evil")],
     [key |-> "note", value |-> Str("gift")] >>

BaseBody == Body(Str("Ana"), Str("555"), Str("7"), Str("1"), Str("Main St"), <<>>)

\* request bodies: the base order with one field varied at a time, and two
\* bodies with more than one thing wrong
AllBodies ==
  {[BaseBody EXCEPT !.name = v] : v \in {Str("Ana"), Undef, Str("")}}
  \cup {[BaseBody EXCEPT !.phone = v] : v \in {Undef, Num(0)}}
  \cup {[BaseBody EXCEPT !.perfumeId = v] :
          v \in {Undef, Num(0), Num(7), Str("07"), Str("99"), Str("2"), Num(2)}}
  \cup {[BaseBody EXCEPT !.quantity = v] :
          v \in {Undef, Num(0), Str("0"), Str(""), Num(12)}}
  \cup {[BaseBody EXCEPT !.deliveryAddress = v] : v \in {Undef, Str("")}}
  \cup {[BaseBody EXCEPT !.extraFields = ExtraSent],
        [BaseBody EXCEPT !.perfumeId = Str("99"), !.quantity = Undef],
        [BaseBody EXCEPT !.perfumeId = Str("2"), !.name = Str("Bo"),
                         !.extraFields = ExtraSent]}

AllAccessKeys == {Undef, Str(""), Str("k1"), Str("k2")}

\* the inputs of requests that are handled concurrently
Bodies ==
  { BaseBody,
    [BaseBody EXCEPT !.quantity = Undef],
    [BaseBody EXCEPT !.perfumeId = Str("07")],
    [BaseBody EXCEPT !.perfumeId = Str("2"), !.name = Str("Bo"),
                     !.extraFields = ExtraSent] }

AccessKeys == {Str("k1"), Str("k2")}

\* a row of an earlier order
EarlierRow ==
  << Str("Eve"), Str("444"), Str("7"), Str("Rose"), Str("3"), Str("Elm St"), Str("T0") >>

\* the states orders.xlsx can be in when the process starts: those above and
\* stores that hold orders
StartFiles ==
  StoreFiles
  \cup { XlsxFile([sheet |-> TRUE, columns |-> CanonicalHeaders,
                   rows |-> << EarlierRow >>]),
         XlsxFile([sheet |-> TRUE, columns |-> CanonicalHeaders,
                   rows |-> << EarlierRow, EarlierRow >>]),
         XlsxFile([sheet |-> TRUE, columns |-> OtherHeaders,
                   rows |-> << EarlierRow >>]) }

\* stores with the canonical schema, empty or holding an earlier order
SeqFiles ==
  { XlsxFile([sheet |-> TRUE, columns |-> CanonicalHeaders, rows |-> <<>>]),
    XlsxFile([sheet |-> TRUE, columns |-> CanonicalHeaders,
              rows |-> << EarlierRow >>]) }

(***************************************************************************)
(* State.                                                                  *)
(***************************************************************************)
VARIABLES
  phase,            \* "starting", "serving" or "crashed" (startup rejected)
  boots,            \* number of times initializeExcel ran to its end
  initLog,          \* what initializeExcel logged last: "", "valid", "recreated"
  env,              \* process.env
  file,             \* orders.xlsx on disk
  catalog,          \* perfumes.json on disk
  transporter,      \* TRUE when the mail transporter was created
  clock,            \* the wall clock
  pc,               \* per request: the await the handler is suspended at
  req,              \* per request: route, body and x-access-key header
  selectedPerfume,  \* per request: the handler's local selectedPerfume
  workbook,         \* per request: the handler's local workbook
  orderData,        \* per request: the handler's local orderData
  mail,             \* per request: "none", "pending", "sent" or "failed"
  res,              \* per request: the response sent, status 0 before it
  writes,           \* per request: number of writeFile calls made
  saved,            \* per request: TRUE once its writeFile call resolved
  seen,             \* per request: the requests saved when it read the store
  allProducts,      \* browser: the product list loaded from GET /perfumes
  items,            \* browser: the cart entry objects ever created
  cart,             \* browser: the cart array, as references into items
  localStorage,     \* browser: the value stored under the key 'cart'
  loader,           \* browser: loadProducts, "idle", "await" or "done"
  checkout,         \* browser: the submit handler of the checkout form
  sentLines,        \* the orders the running checkout has passed to submitOrder
  accepted,         \* the orders answered with success, in the order of the answers
  history           \* how the checkouts so far ended

client ==
  << allProducts, items, cart, localStorage, loader, checkout, sentLines, accepted,
     history >>

vars ==
  << phase, boots, initLog, env, file, catalog, transporter, clock, pc, req, selectedPerfume,
     workbook, orderData, mail, res, writes, saved, seen, client >>

\* localStorage.getItem('cart'): null, or the string stored
Null == [present |-> FALSE, text |-> ""]
Stored(text) == [present |-> TRUE, text |-> text]

NoForm == [name |-> Str(""), phone |-> Str(""), deliveryAddress |-> Str(""), payment |-> Str("")]
NoCheckout == [pc |-> "idle", same |-> TRUE, arr |-> <<>>, i |-> 0, form |-> NoForm]

NoBody == Body(Undef, Undef, Undef, Undef, Undef, <<>>)
NoRequest == [route |-> "", body |-> NoBody, accessKey |-> Undef]
NoOrderData ==
  [name |-> Undef, phone |-> Undef, perfumeId |-> Undef, perfumeName |-> Undef,
   quantity |-> Undef, deliveryAddress |-> Undef, date |-> Undef]
NoResponse ==
  [status |-> 0, success |-> FALSE, message |-> "", data |-> <<>>,
   error |-> <<>>, content |-> <<>>]

\* res.status(status).json({ success, message })
Json(status, success, message) ==
  [status |-> status, success |-> success, message |-> message, data |-> <<>>,
   error |-> <<>>, content |-> <<>>]

InitFrom(files) ==
  /\ phase = "starting"
  /\ boots = 0
  /\ initLog = ""
  /\ env \in Environments
  /\ file \in files
  /\ catalog \in Catalogs
  /\ transporter = FALSE
  /\ clock = 0
  /\ pc = [r \in ReqIds |-> "idle"]
  /\ req = [r \in ReqIds |-> NoRequest]
  /\ selectedPerfume = [r \in ReqIds |-> NoPerfume]
  /\ workbook = [r \in ReqIds |-> EmptyWorkbook]
  /\ orderData = [r \in ReqIds |-> NoOrderData]
  /\ mail = [r \in ReqIds |-> "none"]
  /\ res = [r \in ReqIds |-> NoResponse]
  /\ writes = [r \in ReqIds |-> 0]
  /\ saved = [r \in ReqIds |-> FALSE]
  /\ seen = [r \in ReqIds |-> {}]
  /\ allProducts = <<>>
  /\ items = <<>>
  /\ cart = <<>>
  /\ localStorage = Null
  /\ loader = "idle"
  /\ checkout = NoCheckout
  /\ sentLines = <<>>
  /\ accepted = <<>>
  /\ history = <<>>

Init == InitFrom(StoreFiles)

(***************************************************************************)
(* Startup: initializeExcel, then the email setup, then app.listen.        *)
(***************************************************************************)
\* an initializer that does not look for the Orders worksheet
ExcelValid_AnyWorkbook(f) == f.kind = "xlsx"

\* the try block of initializeExcel completes without throwing
ExcelValid(f) == f.kind = "xlsx" /\ f.sheet

\* an initializer that writes a new file whatever it finds
initializeExcel_Recreate(f) == XlsxFile(addWorksheet(EmptyWorkbook, fixedColumns))

\* the file initializeExcel leaves when its writeFile (if any) succeeds
initializeExcel(f) ==
  IF ExcelValid(f) THEN f ELSE XlsxFile(addWorksheet(EmptyWorkbook, fixedColumns))

\* a transporter created when either credential is set
EmailConfigured_Either(e) == Truthy(e.EMAIL_USER) \/ Truthy(e.EMAIL_PASS)

\* process.env.EMAIL_USER && process.env.EMAIL_PASS
EmailConfigured(e) == Truthy(e.EMAIL_USER) /\ Truthy(e.EMAIL_PASS)

Startup ==
  /\ phase = "starting"
  /\ file' = initializeExcel(file)
  /\ transporter' = EmailConfigured(env)
  /\ phase' = "serving"
  /\ boots' = boots + 1
  /\ initLog' = IF ExcelValid(file) THEN "valid" ELSE "recreated"
  /\ UNCHANGED << env, client, catalog, clock, pc, req, selectedPerfume, workbook,
                  orderData, mail, res, writes, saved, seen >>

\* the writeFile of initializeExcel rejects: the top-level await throws and
\* the process exits before listening
StartupWriteFails ==
  /\ phase = "starting"
  /\ ~ExcelValid(file)
  /\ file' \in {file, CorruptFile}
  /\ phase' = "crashed"
  /\ UNCHANGED << boots, initLog, env, client, catalog, transporter, clock, pc, req, selectedPerfume,
                  workbook, orderData, mail, res, writes, saved, seen >>

\* the process is started again: everything in memory is lost, the files and
\* the environment stay
Restart ==
  /\ phase \in {"serving", "crashed"}
  /\ boots < MaxBoots
  /\ phase' = "starting"
  /\ transporter' = FALSE
  /\ pc' = [r \in ReqIds |-> "idle"]
  /\ req' = [r \in ReqIds |-> NoRequest]
  /\ selectedPerfume' = [r \in ReqIds |-> NoPerfume]
  /\ workbook' = [r \in ReqIds |-> EmptyWorkbook]
  /\ orderData' = [r \in ReqIds |-> NoOrderData]
  /\ mail' = [r \in ReqIds |-> "none"]
  /\ res' = [r \in ReqIds |-> NoResponse]
  /\ writes' = [r \in ReqIds |-> 0]
  /\ saved' = [r \in ReqIds |-> FALSE]
  /\ seen' = [r \in ReqIds |-> {}]
  /\ UNCHANGED << boots, initLog, env, client, file, catalog, clock >>

\* orders.xlsx is replaced, removed or damaged from outside the server
FileEdit(f) ==
  /\ phase = "serving"
  /\ f # file
  /\ file' = f
  /\ UNCHANGED << phase, boots, initLog, env, client, catalog, transporter, clock, pc, req,
                  selectedPerfume, workbook, orderData, mail, res, writes, saved, seen >>

(***************************************************************************)
(* POST /order-perfume.                                                    *)
(***************************************************************************)
\* a validation that forgets quantity
RequiredPresent_NoQuantity(b) ==
  /\ Truthy(b.name)
  /\ Truthy(b.phone)
  /\ Truthy(b.perfumeId)
  /\ Truthy(b.deliveryAddress)

\* the negation of the validation condition
RequiredPresent(b) ==
  /\ Truthy(b.name)
  /\ Truthy(b.phone)
  /\ Truthy(b.perfumeId)
  /\ Truthy(b.quantity)
  /\ Truthy(b.deliveryAddress)

\* a comparison without the conversions: p.id === perfumeId
IdMatches_Strict(p, perfumeId) == p.id = perfumeId

\* p.id.toString() === perfumeId.toString()
IdMatches(p, perfumeId) == toString(p.id) = toString(perfumeId)

\* perfumes.find(...): the index of the first matching entry, 0 for undefined
find(perfumes, perfumeId) ==
  IF \E i \in 1..Len(perfumes) : IdMatches(perfumes[i], perfumeId)
  THEN CHOOSE i \in 1..Len(perfumes) :
         /\ IdMatches(perfumes[i], perfumeId)
         /\ \A j \in 1..(i - 1) : ~IdMatches(perfumes[j], perfumeId)
  ELSE 0

\* the sheet the row is added to: a missing sheet is created, a sheet whose
\* column count is not that of fixedColumns gets the fixed columns
EnsureColumns(wb) ==
  IF ~wb.sheet
  THEN addWorksheet(wb, fixedColumns)
  ELSE IF Len(wb.columns) = 0 \/ Len(wb.columns) # Len(fixedColumns)
       THEN [wb EXCEPT !.columns = Headers(fixedColumns)]
       ELSE wb

\* an order that takes perfumeName from the request when it sends one
BuildOrderData_ClientName(b, perfume, now) ==
  [name |-> b.name,
   phone |-> b.phone,
   perfumeId |-> Str(toString(b.perfumeId)),
   perfumeName |-> IF \E j \in 1..Len(b.extraFields) : b.extraFields[j].key = "perfumeName"
                   THEN b.extraFields[CHOOSE j \in 1..Len(b.extraFields) :
                                        b.extraFields[j].key = "perfumeName"].value
                   ELSE perfume.name,
   quantity |-> Str(toString(b.quantity)),
   deliveryAddress |-> b.deliveryAddress,
   date |-> LocaleString(now)]

BuildOrderData(b, perfume, now) ==
  [name |-> b.name,
   phone |-> b.phone,
   perfumeId |-> Str(toString(b.perfumeId)),
   perfumeName |-> perfume.name,
   quantity |-> Str(toString(b.quantity)),
   deliveryAddress |-> b.deliveryAddress,
   date |-> LocaleString(now)]

\* orderData[col.key] || ""
OrEmpty(v) == IF Truthy(v) THEN v ELSE Str("")

\* a row built without the || "" default
RowData_NoDefault(od) ==
  [i \in 1..Len(fixedColumns) |-> od[fixedColumns[i].key]]

RowData(od) ==
  [i \in 1..Len(fixedColumns) |-> OrEmpty(od[fixedColumns[i].key])]

\* a catch block that leaves error.message out of the body
ErrorResponse_NoDetail(message) == Json(500, FALSE, "Error saving order.")

\* the response of the catch block
ErrorResponse(message) ==
  [Json(500, FALSE, "Error saving order.") EXCEPT !.error = << message >>]

SuccessResponse(od) ==
  [Json(200, TRUE, "Order saved successfully!") EXCEPT !.data = << od >>]

\* a handler without the inner try/catch: a rejected sendMail reaches the
\* outer catch block
MailedResponse_Rethrow(ok, od, message) ==
  IF ok THEN SuccessResponse(od) ELSE ErrorResponse(message)

\* the response after the sendMail promise settled, fulfilled (ok) or
\* rejected: a rejection is caught and logged
MailedResponse(ok, od, message) == SuccessResponse(od)

Respond(r, response) ==
  /\ res' = [res EXCEPT ![r] = response]
  /\ pc' = [pc EXCEPT ![r] = "done"]

\* requests take the slots in order
CanArrive(r) ==
  /\ phase = "serving"
  /\ pc[r] = "idle"
  /\ r > 1 => pc[r - 1] # "idle"

\* the request arrives: destructuring and validation, then the catalog read
\* is started
OrderReceive(r, b) ==
  /\ CanArrive(r)
  /\ req' = [req EXCEPT ![r] =
               [route |-> "POST /order-perfume", body |-> b, accessKey |-> Undef]]
  /\ IF ~RequiredPresent(b)
     THEN Respond(r, Json(400, FALSE, "All fields are required."))
     ELSE /\ pc' = [pc EXCEPT ![r] = "perfumes"]
          /\ UNCHANGED res
  /\ UNCHANGED << phase, boots, initLog, env, client, file, catalog, transporter, clock, selectedPerfume,
                  workbook, orderData, mail, writes, saved, seen >>

\* the catalog read settles: parse, find, then the store read is started
OrderPerfumesLoaded(r) ==
  /\ pc[r] = "perfumes"
  /\ IF LoadPerfumesError(catalog) # ""
     THEN /\ Respond(r, ErrorResponse(LoadPerfumesError(catalog)))
          /\ UNCHANGED selectedPerfume
     ELSE LET i == find(catalog.items, req[r].body.perfumeId) IN
          IF i = 0
          THEN /\ Respond(r, Json(404, FALSE, "Perfume not found."))
               /\ UNCHANGED selectedPerfume
          ELSE /\ selectedPerfume' = [selectedPerfume EXCEPT ![r] = catalog.items[i]]
               /\ pc' = [pc EXCEPT ![r] = "excel"]
               /\ UNCHANGED res
  /\ UNCHANGED << phase, boots, initLog, env, client, file, catalog, transporter, clock, req, workbook,
                  orderData, mail, writes, saved, seen >>

\* the store read settles: columns, orderData, the row, then the store write
\* is started
OrderExcelLoaded(r) ==
  /\ pc[r] = "excel"
  /\ IF ReadFileError(file) # ""
     THEN /\ Respond(r, ErrorResponse(ReadFileError(file)))
          /\ UNCHANGED << clock, workbook, orderData, writes, seen >>
     ELSE \E now \in {clock, clock + 1} :
            LET od == BuildOrderData(req[r].body, selectedPerfume[r], now) IN
            /\ clock' = now
            /\ orderData' = [orderData EXCEPT ![r] = od]
            /\ workbook' = [workbook EXCEPT ![r] =
                              addRow(EnsureColumns(ReadFileWorkbook(file)), RowData(od))]
            /\ writes' = [writes EXCEPT ![r] = @ + 1]
            /\ seen' = [seen EXCEPT ![r] = {q \in ReqIds : saved[q]}]
            /\ pc' = [pc EXCEPT ![r] = "save"]
            /\ UNCHANGED res
  /\ UNCHANGED << phase, boots, initLog, env, client, file, catalog, transporter, req, selectedPerfume,
                  mail, saved >>

\* a handler that appends its row to the file as it is at the time of writing
OrderSaved_Merge(r) ==
  /\ pc[r] = "save"
  /\ file' = IF file.kind = "xlsx"
             THEN [file EXCEPT !.rows = Append(@, RowData(orderData[r]))]
             ELSE XlsxFile(workbook[r])
  /\ saved' = [saved EXCEPT ![r] = TRUE]
  /\ IF transporter
     THEN /\ mail' = [mail EXCEPT ![r] = "pending"]
          /\ pc' = [pc EXCEPT ![r] = "mail"]
          /\ UNCHANGED res
     ELSE /\ Respond(r, SuccessResponse(orderData[r]))
          /\ UNCHANGED mail
  /\ UNCHANGED << phase, boots, initLog, env, client, catalog, transporter, clock, req, selectedPerfume,
                  workbook, orderData, writes, seen >>

\* the store write succeeds; with a transporter sendMail is called
OrderSaved(r) ==
  /\ pc[r] = "save"
  /\ file' = XlsxFile(workbook[r])
  /\ saved' = [saved EXCEPT ![r] = TRUE]
  /\ IF transporter
     THEN /\ mail' = [mail EXCEPT ![r] = "pending"]
          /\ pc' = [pc EXCEPT ![r] = "mail"]
          /\ UNCHANGED res
     ELSE /\ Respond(r, SuccessResponse(orderData[r]))
          /\ UNCHANGED mail
  /\ UNCHANGED << phase, boots, initLog, env, client, catalog, transporter, clock, req, selectedPerfume,
                  workbook, orderData, writes, seen >>

\* a handler that calls writeFile again when it rejects
OrderSaveFailed_Retry(r) ==
  /\ pc[r] = "save"
  /\ file' \in {file, CorruptFile}
  /\ writes' = [writes EXCEPT ![r] = @ + 1]
  /\ UNCHANGED << phase, boots, initLog, env, client, catalog, transporter, clock, pc, req, selectedPerfume,
                  workbook, orderData, mail, res, saved, seen >>

\* the store write rejects; the file is untouched or left damaged
OrderSaveFailed(r) ==
  /\ pc[r] = "save"
  /\ file' \in {file, CorruptFile}
  /\ Respond(r, ErrorResponse("ENOSPC: no space left on device"))
  /\ UNCHANGED << phase, boots, initLog, env, client, catalog, transporter, clock, req, selectedPerfume,
                  workbook, orderData, mail, writes, saved, seen >>

\* a handler that ends after the mail settled without sending the response
OrderMailSettled_NoResponse(r) ==
  /\ pc[r] = "mail"
  /\ \E ok \in BOOLEAN : mail' = [mail EXCEPT ![r] = IF ok THEN "sent" ELSE "failed"]
  /\ pc' = [pc EXCEPT ![r] = "done"]
  /\ UNCHANGED << phase, boots, initLog, env, client, file, catalog, transporter, clock, req,
                  selectedPerfume, workbook, orderData, res, writes, saved, seen >>

\* the sendMail promise settles
OrderMailSettled(r) ==
  /\ pc[r] = "mail"
  /\ \E ok \in BOOLEAN :
       /\ mail' = [mail EXCEPT ![r] = IF ok THEN "sent" ELSE "failed"]
       /\ Respond(r, MailedResponse(ok, orderData[r], "Invalid login"))
  /\ UNCHANGED << phase, boots, initLog, env, client, file, catalog, transporter, clock, req,
                  selectedPerfume, workbook, orderData, writes, saved, seen >>

(***************************************************************************)
(* GET /orders.                                                            *)
(***************************************************************************)
\* a key check without the !accessKey test
KeyAccepted_NoPresence(accessKey, configured) == accessKey = configured

\* the negation of !accessKey || accessKey !== process.env.ACCESS_KEY
KeyAccepted(accessKey, configured) == Truthy(accessKey) /\ accessKey = configured

\* the request arrives: the key check, then fs.access is started
OrdersReceive(r, k) ==
  /\ CanArrive(r)
  /\ req' = [req EXCEPT ![r] =
               [route |-> "GET /orders", body |-> NoBody, accessKey |-> k]]
  /\ IF ~KeyAccepted(k, env.ACCESS_KEY)
     THEN Respond(r, Json(403, FALSE, "Access denied."))
     ELSE /\ pc' = [pc EXCEPT ![r] = "access"]
          /\ UNCHANGED res
  /\ UNCHANGED << phase, boots, initLog, env, client, file, catalog, transporter, clock, selectedPerfume,
                  workbook, orderData, mail, writes, saved, seen >>

\* fs.access settles; on success res.download is started
OrdersAccessed(r) ==
  /\ pc[r] = "access"
  /\ IF file.kind = "absent"
     THEN Respond(r, Json(404, FALSE, "Excel file not found."))
     ELSE /\ pc' = [pc EXCEPT ![r] = "download"]
          /\ UNCHANGED res
  /\ UNCHANGED << phase, boots, initLog, env, client, file, catalog, transporter, clock, req,
                  selectedPerfume, workbook, orderData, mail, writes, saved, seen >>

\* res.download calls back: the file was sent, or could not be read
OrdersDownloaded(r) ==
  /\ pc[r] = "download"
  /\ IF file.kind = "absent"
     THEN Respond(r, Json(500, FALSE, "Error downloading file."))
     ELSE Respond(r, [Json(200, TRUE, "") EXCEPT !.content = << file >>])
  /\ UNCHANGED << phase, boots, initLog, env, client, file, catalog, transporter, clock, req,
                  selectedPerfume, workbook, orderData, mail, writes, saved, seen >>

(***************************************************************************)
(* GET /perfumes.                                                          *)
(***************************************************************************)
\* a catch block that puts error.message in the body
PerfumesErrorResponse_WithDetail(message) ==
  [Json(500, FALSE, "Error reading perfumes.json") EXCEPT !.error = << message >>]

\* the response of the catch block: the error is logged, not sent
PerfumesErrorResponse(message) == Json(500, FALSE, "Error reading perfumes.json")

\* the request arrives: the catalog read is started
PerfumesReceive(r) ==
  /\ CanArrive(r)
  /\ req' = [req EXCEPT ![r] =
               [route |-> "GET /perfumes", body |-> NoBody, accessKey |-> Undef]]
  /\ pc' = [pc EXCEPT ![r] = "catalog"]
  /\ UNCHANGED << phase, boots, initLog, env, client, file, catalog, transporter, clock, selectedPerfume,
                  workbook, orderData, mail, res, writes, saved, seen >>

\* the catalog read settles: the parsed list is sent, or the catch block runs
PerfumesLoaded(r) ==
  /\ pc[r] = "catalog"
  /\ IF LoadPerfumesError(catalog) # ""
     THEN Respond(r, PerfumesErrorResponse(LoadPerfumesError(catalog)))
     ELSE Respond(r, [Json(200, TRUE, "") EXCEPT !.data = catalog.items])
  /\ UNCHANGED << phase, boots, initLog, env, client, file, catalog, transporter, clock, req,
                  selectedPerfume, workbook, orderData, mail, writes, saved, seen >>

(***************************************************************************)
(* The browser: product loading, the cart and the checkout form.  The cart *)
(* is an array of objects; an array or an object can be reached from more  *)
(* than one place, so entries are references into items, and the array the *)
(* checkout loop iterates is the cart array itself until the cart variable *)
(* is assigned a new array.                                                *)
(***************************************************************************)
\* JSON.stringify of a number or a string
JsonScalar(v) == IF v.t = "num" THEN NatToString(v.n) ELSE "\"" \o v.s \o "\""

RECURSIVE Join(_)
Join(ss) ==
  IF Len(ss) = 0 THEN ""
  ELSE IF Len(ss) = 1 THEN ss[1]
  ELSE ss[1] \o "," \o Join(Tail(ss))

\* JSON.stringify of a cart entry: members that are undefined are left out
JsonItem(it) ==
  LET members == SelectSeq(<< [key |-> "id", value |-> it.id],
                              [key |-> "name", value |-> it.name],
                              [key |-> "quantity", value |-> it.quantity] >>,
                           LAMBDA m : m.value # Undef)
  IN "{" \o Join([j \in 1..Len(members) |->
                    "\"" \o members[j].key \o "\":" \o JsonScalar(members[j].value)])
         \o "}"

\* JSON.stringify(cart) for an array of entries
JSONstringify(arr) == "[" \o Join([k \in 1..Len(arr) |-> JsonItem(arr[k])]) \o "]"

\* the entries an array of references holds
Entries(refs, heap) == [k \in 1..Len(refs) |-> heap[refs[k]]]

\* the array the checkout loop iterates
LoopArray == IF checkout.same THEN cart ELSE checkout.arr

\* allProducts.find(p => p.id === productId): its index, 0 for undefined
FindProduct(productId) ==
  LET hits == {i \in 1..Len(allProducts) : allProducts[i].id = productId}
  IN IF hits = {} THEN 0 ELSE CHOOSE i \in hits : \A j \in hits : i <= j

\* cart.find(item => item.id === productId): its index, 0 for undefined
FindItem(productId) ==
  LET hits == {k \in 1..Len(cart) : items[cart[k]].id = productId}
  IN IF hits = {} THEN 0 ELSE CHOOSE k \in hits : \A j \in hits : k <= j

\* the product ids the page calls addToCart and removeFromCart with
ProductIds == {Num(7), Str("2"), Str("7")}

Form(name, phone, deliveryAddress, payment) ==
  [name |-> name, phone |-> phone, deliveryAddress |-> deliveryAddress,
   payment |-> payment]

\* what the checkout form is submitted with
Forms ==
  { Form(Str("Ana"), Str("555"), Str("Main St"), Str("cash")),
    Form(Str("Ana"), Str(""), Str("Main St"), Str("cash")) }

\* the response was read: the connection is over and its slot is free
Consume(r) ==
  /\ pc' = [pc EXCEPT ![r] = "idle"]
  /\ req' = [req EXCEPT ![r] = NoRequest]
  /\ selectedPerfume' = [selectedPerfume EXCEPT ![r] = NoPerfume]
  /\ workbook' = [workbook EXCEPT ![r] = EmptyWorkbook]
  /\ orderData' = [orderData EXCEPT ![r] = NoOrderData]
  /\ mail' = [mail EXCEPT ![r] = "none"]
  /\ res' = [res EXCEPT ![r] = NoResponse]
  /\ writes' = [writes EXCEPT ![r] = 0]
  /\ saved' = [saved EXCEPT ![r] = FALSE]
  /\ seen' = [seen EXCEPT ![r] = {}]

\* DOMContentLoaded on the page with the products grid: loadProducts calls
\* fetch('/perfumes')
LoadProducts ==
  /\ loader = "idle"
  /\ loader' = "await"
  /\ UNCHANGED << phase, boots, initLog, env, file, catalog, transporter, clock, pc, req,
                  selectedPerfume, workbook, orderData, mail, res, writes, saved, seen,
                  allProducts, items, cart, localStorage, checkout, sentLines, accepted,
                  history >>

\* the request of loadProducts reaches the server
ProductsArrive(r) ==
  /\ loader = "await"
  /\ PerfumesReceive(r)

\* fetch rejects: the catch block of loadProducts logs the error
ProductsFetchRejected(r) ==
  /\ loader = "await"
  /\ pc[r] = "idle"
  /\ loader' = "done"
  /\ UNCHANGED << phase, boots, initLog, env, file, catalog, transporter, clock, pc, req,
                  selectedPerfume, workbook, orderData, mail, res, writes, saved, seen,
                  allProducts, items, cart, localStorage, checkout, sentLines, accepted,
                  history >>

\* the response of GET /perfumes was read
ProductsSettled(r) ==
  /\ loader = "await"
  /\ req[r].route = "GET /perfumes"
  /\ pc[r] = "done"
  /\ allProducts' = IF res[r].success THEN res[r].data ELSE allProducts
  /\ loader' = "done"
  /\ Consume(r)
  /\ UNCHANGED << phase, boots, initLog, env, file, catalog, transporter, clock,
                  items, cart, localStorage, checkout, sentLines, accepted, history >>

\* an addToCart that pushes a new entry without looking for an existing one
addToCart_AlwaysPush(productId) ==
  LET p == FindProduct(productId) IN
  /\ IF p = 0
     THEN UNCHANGED << items, cart, localStorage >>
     ELSE /\ Len(items) < MaxObjs
          /\ items' = Append(items, [id |-> allProducts[p].id,
                                     name |-> allProducts[p].name,
                                     quantity |-> Num(1)])
          /\ cart' = Append(cart, Len(items) + 1)
          /\ localStorage' = Stored(JSONstringify(Entries(cart', items')))
  /\ UNCHANGED << phase, boots, initLog, env, file, catalog, transporter, clock, pc, req,
                  selectedPerfume, workbook, orderData, mail, res, writes, saved, seen,
                  allProducts, loader, checkout, sentLines, accepted, history >>

addToCart(productId) ==
  LET p == FindProduct(productId)
      k == FindItem(productId)
  IN
  /\ IF p = 0
     THEN UNCHANGED << items, cart, localStorage >>
     ELSE IF k # 0
     THEN /\ items[cart[k]].quantity.n < MaxQuantity
          /\ items' = [items EXCEPT ![cart[k]].quantity = Num(@.n + 1)]
          /\ UNCHANGED cart
          /\ localStorage' = Stored(JSONstringify(Entries(cart', items')))
     ELSE /\ Len(items) < MaxObjs
          /\ items' = Append(items, [id |-> allProducts[p].id,
                                     name |-> allProducts[p].name,
                                     quantity |-> Num(1)])
          /\ cart' = Append(cart, Len(items) + 1)
          /\ localStorage' = Stored(JSONstringify(Entries(cart', items')))
  /\ UNCHANGED << phase, boots, initLog, env, file, catalog, transporter, clock, pc, req,
                  selectedPerfume, workbook, orderData, mail, res, writes, saved, seen,
                  allProducts, loader, checkout, sentLines, accepted, history >>

\* cart.filter makes a new array: a checkout loop that is running keeps the
\* old one
removeFromCart(productId) ==
  /\ cart' = SelectSeq(cart, LAMBDA ref : items[ref].id # productId)
  /\ localStorage' = Stored(JSONstringify(Entries(cart', items)))
  /\ checkout' = IF checkout.pc = "await" /\ checkout.same
                 THEN [checkout EXCEPT !.same = FALSE, !.arr = cart]
                 ELSE checkout
  /\ UNCHANGED << phase, boots, initLog, env, file, catalog, transporter, clock, pc, req,
                  selectedPerfume, workbook, orderData, mail, res, writes, saved, seen,
                  allProducts, items, loader, sentLines, accepted, history >>

\* the orderData of one cart line, as the server parses it
LineBody(form, item) ==
  Body(form.name, form.phone, item.id, item.quantity, form.deliveryAddress, <<>>)

\* the form is submitted while no earlier submission is being handled: the
\* two checks, then submitOrder for the first line
Submit(form) ==
  /\ checkout.pc = "idle"
  /\ Len(history) < MaxCheckouts
  /\ IF Len(cart) = 0
     THEN /\ history' = Append(history, "empty")
          /\ UNCHANGED << checkout, sentLines >>
     ELSE IF ~(Truthy(form.name) /\ Truthy(form.phone)
               /\ Truthy(form.deliveryAddress) /\ Truthy(form.payment))
     THEN /\ history' = Append(history, "incomplete")
          /\ UNCHANGED << checkout, sentLines >>
     ELSE /\ checkout' = [pc |-> "await", same |-> TRUE, arr |-> <<>>, i |-> 1,
                          form |-> form]
          /\ sentLines' = << LineBody(form, items[cart[1]]) >>
          /\ UNCHANGED history
  /\ UNCHANGED << phase, boots, initLog, env, file, catalog, transporter, clock, pc, req,
                  selectedPerfume, workbook, orderData, mail, res, writes, saved, seen,
                  allProducts, items, cart, localStorage, loader, accepted >>

\* the request of submitOrder reaches the server
CheckoutArrive(r) ==
  /\ checkout.pc = "await"
  /\ OrderReceive(r, sentLines[Len(sentLines)])

\* fetch rejects: submitOrder throws into the catch block of the handler
CheckoutFetchRejected(r) ==
  /\ checkout.pc = "await"
  /\ pc[r] = "idle"
  /\ checkout' = NoCheckout
  /\ history' = Append(history, "failed")
  /\ UNCHANGED << phase, boots, initLog, env, file, catalog, transporter, clock, pc, req,
                  selectedPerfume, workbook, orderData, mail, res, writes, saved, seen,
                  allProducts, items, cart, localStorage, loader, sentLines, accepted >>

\* a handler that empties the cart in its catch block too
CheckoutSettled_ClearOnFailure(r) ==
  /\ checkout.pc = "await"
  /\ req[r].route = "POST /order-perfume"
  /\ pc[r] = "done"
  /\ Consume(r)
  /\ IF ~res[r].success
     THEN /\ checkout' = NoCheckout
          /\ history' = Append(history, "failed")
          /\ cart' = <<>>
          /\ localStorage' = Null
          /\ UNCHANGED << sentLines, accepted >>
     ELSE /\ accepted' = Append(accepted, req[r].body)
          /\ IF checkout.i < Len(LoopArray)
             THEN /\ checkout' = [checkout EXCEPT !.i = @ + 1]
                  /\ sentLines' = Append(sentLines,
                                         LineBody(checkout.form,
                                                  items[LoopArray[checkout.i + 1]]))
                  /\ UNCHANGED << cart, localStorage, history >>
             ELSE /\ cart' = <<>>
                  /\ localStorage' = Null
                  /\ checkout' = NoCheckout
                  /\ history' = Append(history, "success")
                  /\ UNCHANGED sentLines
  /\ UNCHANGED << phase, boots, initLog, env, file, catalog, transporter, clock,
                  allProducts, items, loader >>

\* the response of submitOrder was read: a result without success throws
\* into the catch block; otherwise submitOrder is called for the next line
\* of the array, and after the last line the cart is cleared
CheckoutSettled(r) ==
  /\ checkout.pc = "await"
  /\ req[r].route = "POST /order-perfume"
  /\ pc[r] = "done"
  /\ Consume(r)
  /\ IF ~res[r].success
     THEN /\ checkout' = NoCheckout
          /\ history' = Append(history, "failed")
          /\ UNCHANGED << cart, localStorage, sentLines, accepted >>
     ELSE /\ accepted' = Append(accepted, req[r].body)
          /\ IF checkout.i < Len(LoopArray)
             THEN /\ checkout' = [checkout EXCEPT !.i = @ + 1]
                  /\ sentLines' = Append(sentLines,
                                         LineBody(checkout.form,
                                                  items[LoopArray[checkout.i + 1]]))
                  /\ UNCHANGED << cart, localStorage, history >>
             ELSE /\ cart' = <<>>
                  /\ localStorage' = Null
                  /\ checkout' = NoCheckout
                  /\ history' = Append(history, "success")
                  /\ UNCHANGED sentLines
  /\ UNCHANGED << phase, boots, initLog, env, file, catalog, transporter, clock,
                  allProducts, items, loader >>

(***************************************************************************)
(* The server handling up to MaxReqs requests concurrently.  GET /perfumes *)
(* reads the catalog only and is left to the one-request specification.    *)
(***************************************************************************)
Next ==
  \/ Startup
  \/ StartupWriteFails
  \/ FileEdit(AbsentFile)
  \/ \E r \in ReqIds, b \in Bodies : OrderReceive(r, b)
  \/ \E r \in ReqIds : OrderPerfumesLoaded(r)
  \/ \E r \in ReqIds : OrderExcelLoaded(r)
  \/ \E r \in ReqIds : OrderSaved(r)
  \/ \E r \in ReqIds : OrderSaveFailed(r)
  \/ \E r \in ReqIds : OrderMailSettled(r)
  \/ \E r \in ReqIds, k \in AccessKeys : OrdersReceive(r, k)
  \/ \E r \in ReqIds : OrdersAccessed(r)
  \/ \E r \in ReqIds : OrdersDownloaded(r)

Spec == Init /\ [][Next]_vars

(***************************************************************************)
(* The server handling one request, on every input and every edit of the   *)
(* store file.                                                             *)
(***************************************************************************)
OneNext ==
  \/ Startup
  \/ StartupWriteFails
  \/ \E f \in StoreFiles : FileEdit(f)
  \/ \E b \in AllBodies : OrderReceive(1, b)
  \/ OrderPerfumesLoaded(1)
  \/ OrderExcelLoaded(1)
  \/ OrderSaved(1)
  \/ OrderSaveFailed(1)
  \/ OrderMailSettled(1)
  \/ \E k \in AllAccessKeys : OrdersReceive(1, k)
  \/ OrdersAccessed(1)
  \/ OrdersDownloaded(1)
  \/ PerfumesReceive(1)
  \/ PerfumesLoaded(1)

OneSpec == Init /\ [][OneNext]_vars

(***************************************************************************)
(* The process started and started again, on every state of the store.     *)
(***************************************************************************)
StartInit == InitFrom(StartFiles)

StartNext ==
  \/ Startup
  \/ StartupWriteFails
  \/ Restart
  \/ \E f \in StartFiles : FileEdit(f)

StartSpec == StartInit /\ [][StartNext]_vars

(***************************************************************************)
(* Orders sent one after another: a request is sent when every earlier one *)
(* has been answered.  The store has the canonical schema at startup and   *)
(* is not edited from outside.                                             *)
(***************************************************************************)
InTurn(r) == \A q \in ReqIds : q < r => pc[q] = "done"

SeqInit == InitFrom(SeqFiles)

SeqNext ==
  \/ Startup
  \/ \E r \in ReqIds, b \in Bodies : InTurn(r) /\ OrderReceive(r, b)
  \/ \E r \in ReqIds : OrderPerfumesLoaded(r)
  \/ \E r \in ReqIds : OrderExcelLoaded(r)
  \/ \E r \in ReqIds : OrderSaved(r)
  \/ \E r \in ReqIds : OrderSaveFailed(r)
  \/ \E r \in ReqIds : OrderMailSettled(r)

SeqSpec == SeqInit /\ [][SeqNext]_vars

(***************************************************************************)
(* One browser page and the server.  The page has one request in flight at *)
(* a time, which takes the first slot; the store has the canonical schema  *)
(* and no rows at startup.                                                 *)
(***************************************************************************)
ClientFiles ==
  { XlsxFile([sheet |-> TRUE, columns |-> CanonicalHeaders, rows |-> <<>>]) }

\* the access key plays no part here, and the mail password is set, so that
\* EMAIL_USER decides whether notifications are on
ClientInit ==
  /\ InitFrom(ClientFiles)
  /\ env.ACCESS_KEY = Undef
  /\ env.EMAIL_PASS # Undef

ClientNext ==
  \/ Startup
  \/ LoadProducts
  \/ ProductsArrive(1)
  \/ ProductsFetchRejected(1)
  \/ PerfumesLoaded(1)
  \/ ProductsSettled(1)
  \/ \E id \in ProductIds : addToCart(id)
  \/ \E id \in ProductIds : removeFromCart(id)
  \/ \E form \in Forms : Submit(form)
  \/ CheckoutArrive(1)
  \/ CheckoutFetchRejected(1)
  \/ OrderPerfumesLoaded(1)
  \/ OrderExcelLoaded(1)
  \/ OrderSaved(1)
  \/ OrderSaveFailed(1)
  \/ OrderMailSettled(1)
  \/ CheckoutSettled(1)

ClientSpec == ClientInit /\ [][ClientNext]_vars

(***************************************************************************)
(* The same, with the scheduling the event loop guarantees: startup runs,  *)
(* and a file operation that was started settles.  Nothing makes the mail  *)
(* provider answer, so OrderMailSettled is not fair.                       *)
(***************************************************************************)
LiveSpec ==
  /\ Init
  /\ [][OneNext]_vars
  /\ WF_vars(Startup \/ StartupWriteFails)
  /\ WF_vars(OrderPerfumesLoaded(1))
  /\ WF_vars(OrderExcelLoaded(1))
  /\ WF_vars(OrderSaved(1) \/ OrderSaveFailed(1))
  /\ WF_vars(OrdersAccessed(1))
  /\ WF_vars(OrdersDownloaded(1))
  /\ WF_vars(PerfumesLoaded(1))

(***************************************************************************)
(* Properties.                                                             *)
(***************************************************************************)
IsOrder(r) == req[r].route = "POST /order-perfume"
IsDownload(r) == req[r].route = "GET /orders"
Answered(r) == pc[r] = "done"

\* the row request r built is the last row of its workbook
LastRow(r) == workbook[r].rows[Len(workbook[r].rows)]

\* the body of a 200 answer to an order, written out
OrderAnswer(od) ==
  [status |-> 200, success |-> TRUE, message |-> "Order saved successfully!",
   data |-> << od >>, error |-> <<>>, content |-> <<>>]

\* C1: notification isolation.  A request whose store write succeeded is
\* answered 200 with success true and the order as data, whether the mail was
\* sent, failed or was never attempted, and the step in which the mail
\* settles leaves the store file as it was.
NotificationIsolation ==
  /\ [](\A r \in ReqIds :
          (saved[r] /\ Answered(r)) =>
             /\ res[r] = OrderAnswer(orderData[r])
             /\ mail[r] \in {"none", "sent", "failed"})
  /\ [][\A r \in ReqIds :
          (pc[r] = "mail" /\ pc'[r] # "mail") => file' = file]_vars

\* a request answered after its mail failed, with its row still in the store
NotificationFailedWitness ==
  \E r \in ReqIds :
    /\ mail[r] = "failed"
    /\ res[r].status = 200
    /\ res[r].data = << orderData[r] >>
    /\ file.kind = "xlsx"
    /\ file.rows # <<>>
    /\ file.rows[Len(file.rows)] = LastRow(r)

\* C2: schema invariant, as claimed.  After every successful append the
\* columns of the Orders sheet that was written are the seven canonical
\* headers in canonical order, whatever the file held before.
SchemaInvariant ==
  \A r \in ReqIds : saved[r] => workbook[r].columns = CanonicalHeaders

\* C3: lost update.  When the write of request r2 succeeds after the write of
\* r1 succeeded, and r2 had read the store before r1 wrote it, the store is
\* replaced by what r2 read plus the row of r2: it then holds fewer rows than
\* there are requests whose write succeeded.
LostUpdate ==
  [][\A r1, r2 \in ReqIds :
       (/\ r1 # r2
        /\ saved[r1]
        /\ ~saved[r2] /\ saved'[r2]
        /\ r1 \notin seen[r2])
       => /\ file' = XlsxFile(workbook[r2])
          /\ Len(file'.rows) < Cardinality({q \in ReqIds : saved'[q]})]_vars

\* two orders for different customers were both answered 200, and the store
\* holds one row: the second writer's
LostUpdateWitness ==
  \E r1, r2 \in ReqIds :
    /\ r1 # r2
    /\ res[r1].status = 200 /\ res[r2].status = 200
    /\ IsOrder(r1) /\ IsOrder(r2)
    /\ r1 \notin seen[r2] /\ r2 \notin seen[r1]
    /\ LastRow(r1) # LastRow(r2)
    /\ file.kind = "xlsx"
    /\ file.rows = << LastRow(r2) >>

\* C4: at most one store write per request.  writeFile is called at most once
\* for a request; the call is made with the workbook as it was read plus one
\* row; a request answered 200 made the call and it had resolved before the
\* answer; a request answered 400 or 404 made no call.
WriteOnce ==
  /\ [](\A r \in ReqIds :
          /\ writes[r] <= 1
          /\ (IsOrder(r) /\ res[r].status = 200) => (writes[r] = 1 /\ saved[r])
          /\ res[r].status \in {400, 404} => (writes[r] = 0 /\ ~saved[r]))
  /\ [][\A r \in ReqIds :
          writes'[r] # writes[r] =>
             /\ file.kind = "xlsx"
             /\ workbook'[r].rows = Append(file.rows, RowData(orderData'[r]))]_vars

\* an order answered 200 after its single write, next to one answered 404
WriteOnceWitness ==
  \E r1, r2 \in ReqIds :
    /\ res[r1].status = 200 /\ writes[r1] = 1 /\ IsOrder(r1)
    /\ res[r2].status = 404 /\ writes[r2] = 0

\* a required field that is absent, empty or zero
Missing(v) == v = Undef \/ v = Str("") \/ v = Num(0)

AnyMissing(b) ==
  \/ Missing(b.name) \/ Missing(b.phone) \/ Missing(b.perfumeId)
  \/ Missing(b.quantity) \/ Missing(b.deliveryAddress)

\* request r is answered in this step
Answers(r) == res[r].status = 0 /\ res'[r].status # 0

\* C5: an order with a required field absent, empty or zero is answered 400
\* on arrival, before the catalog is looked at: no writeFile call, no mail,
\* and the step that answers it leaves the store file as it was.
MissingFieldRejected ==
  /\ [](\A r \in ReqIds :
          (IsOrder(r) /\ AnyMissing(req[r].body)) =>
             /\ res[r] = [status |-> 400, success |-> FALSE,
                          message |-> "All fields are required.", data |-> <<>>,
                          error |-> <<>>, content |-> <<>>]
             /\ writes[r] = 0 /\ ~saved[r] /\ mail[r] = "none"
             /\ workbook[r] = EmptyWorkbook)
  /\ [][\A r \in ReqIds :
          (IsOrder(r)' /\ AnyMissing(req'[r].body) /\ Answers(r)) => file' = file]_vars

\* an order without quantity for a product that is not in the catalog, with
\* the catalog unreadable, answered 400
MissingFieldWitness ==
  \E r \in ReqIds :
    /\ IsOrder(r)
    /\ req[r].body.quantity = Undef
    /\ req[r].body.perfumeId = Str("99")
    /\ catalog.kind # "json"
    /\ res[r].status = 400

\* no entry of the catalog that was loaded has the id of the order, both as text
NoEntryMatches(r) ==
  /\ catalog.kind = "json"
  /\ \A i \in 1..Len(catalog.items) :
       toString(catalog.items[i].id) # toString(req[r].body.perfumeId)

\* C6: an order with every required field given is answered 404 exactly when
\* the catalog was loaded and no entry's id, as text, equals the order's
\* perfumeId, as text; a 404 comes with no writeFile call and no mail, and the
\* step that answers it leaves the store file as it was.
UnknownPerfumeRejected ==
  /\ [](\A r \in ReqIds :
          (IsOrder(r) /\ ~AnyMissing(req[r].body) /\ Answered(r)) =>
             /\ res[r].status = 404 <=> NoEntryMatches(r)
             /\ res[r].status = 404 =>
                  /\ res[r] = [status |-> 404, success |-> FALSE,
                               message |-> "Perfume not found.", data |-> <<>>,
                               error |-> <<>>, content |-> <<>>]
                  /\ writes[r] = 0 /\ ~saved[r] /\ mail[r] = "none")
  /\ [][\A r \in ReqIds :
          (Answers(r) /\ res'[r].status = 404) => file' = file]_vars

\* perfumeId "07" against a catalog entry with id 7 is answered 404
UnknownPerfumeWitness ==
  \E r \in ReqIds :
    /\ IsOrder(r)
    /\ req[r].body.perfumeId = Str("07")
    /\ \E i \in 1..Len(catalog.items) : catalog.items[i].id = Num(7)
    /\ res[r].status = 404

\* C7: when the store read or the store write of an order fails, the order is
\* answered 500 with success false and the error's message in the error
\* field; an order whose write did not succeed is never answered 200 and no
\* mail is dispatched for it.
StorageFailureReported ==
  /\ [](\A r \in ReqIds :
          (IsOrder(r) /\ ~saved[r]) => (res[r].status # 200 /\ mail[r] = "none"))
  /\ [][\A r \in ReqIds :
          /\ (pc[r] = "excel" /\ pc'[r] # "excel" /\ file.kind # "xlsx") =>
               /\ res'[r].status = 500 /\ ~res'[r].success
               /\ res'[r].error = << ReadFileError(file) >>
               /\ res'[r].data = <<>>
               /\ pc'[r] = "done"
          /\ (pc[r] = "save" /\ pc'[r] # "save" /\ ~saved'[r]) =>
               /\ res'[r].status = 500 /\ ~res'[r].success
               /\ res'[r].error = << "ENOSPC: no space left on device" >>
               /\ res'[r].data = <<>>
               /\ pc'[r] = "done"]_vars

\* one order answered 500 after its write failed, another after its read of
\* the damaged file failed
StorageFailureWitness ==
  \E r1, r2 \in ReqIds :
    /\ writes[r1] = 1 /\ ~saved[r1]
    /\ res[r1].status = 500
    /\ res[r1].error = << "ENOSPC: no space left on device" >>
    /\ writes[r2] = 0 /\ selectedPerfume[r2] # NoPerfume
    /\ res[r2].status = 500
    /\ res[r2].error = << "Can't find end of central directory" >>

\* C8: field projection.  The row an accepted order appends has seven cells:
\* name, phone, perfumeId as text, the catalog entry's name or the empty
\* string when it has none, quantity as text, deliveryAddress and the date;
\* no cell is undefined and no cell holds the value of an extra request field.
FieldProjection ==
  \A r \in ReqIds :
    writes[r] > 0 =>
      LET row == LastRow(r)
          b == req[r].body
      IN /\ Len(row) = 7
         /\ row[1] = b.name
         /\ row[2] = b.phone
         /\ row[3] = Str(toString(b.perfumeId))
         /\ row[4] = IF selectedPerfume[r].name = Undef
                     THEN Str("") ELSE selectedPerfume[r].name
         /\ row[5] = Str(toString(b.quantity))
         /\ row[6] = b.deliveryAddress
         /\ row[7] = orderData[r].date /\ row[7].t = "str" /\ row[7].s # ""
         /\ \A i \in 1..7 : row[i] # Undef
         /\ \A i \in 1..7, j \in 1..Len(b.extraFields) :
              row[i] # b.extraFields[j].value

\* an order with extra fields for a product without a name, saved and answered
FieldProjectionWitness ==
  \E r \in ReqIds :
    /\ res[r].status = 200
    /\ req[r].body.extraFields # <<>>
    /\ selectedPerfume[r].name = Undef
    /\ LastRow(r)[4] = Str("")
    /\ file.kind = "xlsx" /\ file.rows # <<>>
    /\ file.rows[Len(file.rows)] = LastRow(r)

\* the x-access-key header is present, not empty and equal to ACCESS_KEY
KeyOk(r) ==
  /\ req[r].accessKey.t = "str"
  /\ req[r].accessKey.s # ""
  /\ env.ACCESS_KEY = req[r].accessKey

\* C9: GET /orders sends file content only to a request whose key is present,
\* not empty and equal to ACCESS_KEY; every other request is answered 403
\* without content on arrival, whatever the state of the file; a request
\* with the right key whose fs.access finds no file is answered 404.
DownloadGuarded ==
  /\ [](\A r \in ReqIds :
          IsDownload(r) =>
             /\ res[r].content # <<>> => KeyOk(r)
             /\ ~KeyOk(r) =>
                  res[r] = [status |-> 403, success |-> FALSE,
                            message |-> "Access denied.", data |-> <<>>,
                            error |-> <<>>, content |-> <<>>])
  /\ [][\A r \in ReqIds :
          (pc[r] = "access" /\ pc'[r] # "access" /\ file.kind = "absent") =>
             /\ KeyOk(r)
             /\ res'[r].status = 404
             /\ res'[r].content = <<>>]_vars

\* a request with a wrong key answered 403 while the file is there
DownloadDeniedWitness ==
  \E r \in ReqIds :
    /\ IsDownload(r)
    /\ req[r].accessKey = Str("k2")
    /\ env.ACCESS_KEY = Str("k1")
    /\ file.kind = "xlsx"
    /\ res[r].status = 403
    /\ res[r].content = <<>>

\* C10, as claimed: a request whose row was persisted eventually receives its
\* 200 response, whether or not the mail dispatch ever completes.
ResponseNotHeldBack ==
  \A r \in ReqIds : saved[r] ~> (res[r].status = 200)

\* C10, amended: the response waits for the dispatch.  While the mail is
\* pending no response has been sent, and a request whose row was persisted
\* eventually receives its 200 response unless its dispatch stays pending
\* forever.
ResponseAfterDispatch ==
  /\ [](\A r \in ReqIds : mail[r] = "pending" => (saved[r] /\ res[r].status = 0))
  /\ \A r \in ReqIds :
       [](saved[r] => <>(res[r].status = 200 \/ [](mail[r] = "pending")))

\* a persisted order whose dispatch is pending, not answered yet
DispatchPendingWitness ==
  \E r \in ReqIds :
    /\ saved[r]
    /\ mail[r] = "pending"
    /\ res[r].status = 0
    /\ file.kind = "xlsx" /\ file.rows # <<>>
    /\ file.rows[Len(file.rows)] = LastRow(r)

\* the initializer runs to its end in this step
InitializerRuns == phase = "starting" /\ phase' # "starting"

\* the store is readable and holds an Orders table
HoldsOrders(f) == f.kind = "xlsx" /\ f.sheet

\* C11: idempotent store creation.  The initializer run on a readable store
\* with an Orders table writes nothing: it ends normally and the file, with
\* its header and every row, is as before, on the first run and on every
\* later one.
InitializerIdempotent ==
  [][(InitializerRuns /\ HoldsOrders(file)) =>
        /\ file' = file
        /\ phase' = "serving"
        /\ initLog' = "valid"]_vars

\* the initializer ran a second time on a store that holds orders
InitializerTwiceWitness ==
  /\ boots = 2
  /\ phase = "serving"
  /\ initLog = "valid"
  /\ file.kind = "xlsx" /\ file.sheet
  /\ Len(file.rows) = 2

\* C12: destructive repair.  The initializer run, to its end, on a store that
\* is missing, unreadable or without an Orders table leaves a store with an
\* Orders table, the seven canonical headers and no rows.
InitializerRepairs ==
  [][(InitializerRuns /\ phase' = "serving" /\ ~HoldsOrders(file)) =>
        /\ file' = [kind |-> "xlsx", sheet |-> TRUE,
                    columns |-> << "Name", "Phone", "Perfume ID", "Perfume Name",
                                   "Quantity", "Delivery Address", "Date" >>,
                    rows |-> <<>>]
        /\ initLog' = "recreated"]_vars

\* the initializer has recreated the store
InitializerRepairedWitness ==
  /\ phase = "serving"
  /\ initLog = "recreated"
  /\ file.kind = "xlsx" /\ file.sheet
  /\ Len(file.columns) = 7
  /\ file.rows = <<>>

\* the four required fields other than quantity are given
OthersGiven(b) ==
  /\ ~Missing(b.name) /\ ~Missing(b.phone)
  /\ ~Missing(b.perfumeId) /\ ~Missing(b.deliveryAddress)

\* C13, as claimed: an order whose quantity is the number 0 or the string "0",
\* with the other required fields given, is answered 400 and makes no store
\* write.
ZeroQuantityRejected ==
  \A r \in ReqIds :
    (/\ IsOrder(r) /\ Answered(r)
     /\ req[r].body.quantity \in {Num(0), Str("0")}
     /\ OthersGiven(req[r].body))
    => (res[r].status = 400 /\ writes[r] = 0)

\* C13, amended: quantity as the number 0 is answered 400 with no store
\* write; quantity as the string "0" passes the validation: the order is never
\* answered 400, and when it is answered 200 the order and its row carry the
\* quantity "0".
ZeroNumberRejected ==
  \A r \in ReqIds :
    (IsOrder(r) /\ OthersGiven(req[r].body)) =>
      /\ req[r].body.quantity = Num(0) =>
           (res[r].status = 400 /\ pc[r] = "done" /\ writes[r] = 0)
      /\ req[r].body.quantity = Str("0") =>
           /\ res[r].status # 400
           /\ pc[r] # "done" \/ res[r].status \in {200, 404, 500}
           /\ res[r].status = 200 =>
                /\ res[r].data[1].quantity = Str("0")
                /\ LastRow(r)[5] = Str("0")
                /\ saved[r]

\* an order with quantity "0" answered 200, its row in the store
ZeroStringAcceptedWitness ==
  \E r \in ReqIds :
    /\ IsOrder(r)
    /\ req[r].body.quantity = Str("0")
    /\ res[r].status = 200
    /\ file.kind = "xlsx" /\ file.rows # <<>>
    /\ file.rows[Len(file.rows)][5] = Str("0")

\* the first entry of the catalog whose id, as text, is the order's perfumeId
MatchingEntry(r) ==
  LET ids == {i \in 1..Len(catalog.items) :
                toString(catalog.items[i].id) = toString(req[r].body.perfumeId)}
  IN catalog.items[CHOOSE i \in ids : \A j \in ids : i <= j]

\* C14: for an order answered 200, perfumeName in the response data is the
\* name of the matching catalog entry (in the row the empty string when the
\* entry has none), never a perfumeName sent by the client; perfumeId and
\* quantity are the request's values as strings; name, phone and
\* deliveryAddress are the request's values.
CatalogNameUsed ==
  \A r \in ReqIds :
    (IsOrder(r) /\ res[r].status = 200) =>
      LET d == res[r].data[1]
          b == req[r].body
          row == LastRow(r)
      IN /\ d.perfumeName = MatchingEntry(r).name
         /\ row[4] = IF MatchingEntry(r).name = Undef
                     THEN Str("") ELSE MatchingEntry(r).name
         /\ \A j \in 1..Len(b.extraFields) :
              b.extraFields[j].key = "perfumeName" =>
                (d.perfumeName # b.extraFields[j].value
                 /\ row[4] # b.extraFields[j].value)
         /\ d.perfumeId.t = "str" /\ d.perfumeId.s = toString(b.perfumeId)
         /\ d.quantity.t = "str" /\ d.quantity.s = toString(b.quantity)
         /\ row[3] = d.perfumeId /\ row[5] = d.quantity
         /\ d.name = b.name /\ d.phone = b.phone
         /\ d.deliveryAddress = b.deliveryAddress
         /\ row[1] = b.name /\ row[2] = b.phone /\ row[6] = b.deliveryAddress

\* an order that sent its own perfumeName, answered with the catalog's
CatalogNameWitness ==
  \E r \in ReqIds :
    /\ res[r].status = 200
    /\ \E j \in 1..Len(req[r].body.extraFields) :
         /\ req[r].body.extraFields[j].key = "perfumeName"
         /\ req[r].body.extraFields[j].value = Str("Evil")
    /\ req[r].body.perfumeId = Str("7")
    /\ res[r].data[1].perfumeName = Str("Rose")
    /\ res[r].data[1].perfumeId = Str("7")
    /\ LastRow(r)[4] = Str("Rose")

IsPerfumes(r) == req[r].route = "GET /perfumes"

\* C15, as claimed: a 500 answer to POST /order-perfume or to GET /perfumes
\* carries the underlying error's message in its body.
ErrorDetailEverywhere ==
  \A r \in ReqIds :
    ((IsOrder(r) \/ IsPerfumes(r)) /\ res[r].status >= 500) =>
      (Len(res[r].error) = 1 /\ res[r].error[1] # "")

\* C15, amended: a 500 answer to POST /order-perfume caused by a catalog read
\* failure carries that error's message in the error field (as one caused by a
\* store failure carries the store's); a 500 answer to GET /perfumes is the
\* fixed body {success: false, message: "Error reading perfumes.json"} with no
\* error detail.
ErrorDetailOnlyForOrders ==
  /\ [](\A r \in ReqIds :
          /\ (IsOrder(r) /\ res[r].status >= 500) =>
               /\ Len(res[r].error) = 1 /\ res[r].error[1] # ""
               /\ res[r].message = "Error saving order."
          /\ (IsPerfumes(r) /\ res[r].status >= 500) =>
               /\ res[r].error = <<>>
               /\ res[r].message = "Error reading perfumes.json"
               /\ ~res[r].success /\ res[r].data = <<>>)
  /\ [][\A r \in ReqIds :
          /\ (pc[r] = "perfumes" /\ pc'[r] # "perfumes" /\ catalog.kind # "json") =>
               /\ res'[r].status = 500
               /\ res'[r].error = << "ENOENT: no such file or directory" >>
          /\ (pc[r] = "catalog" /\ pc'[r] # "catalog") =>
               IF catalog.kind # "json"
               THEN res'[r].status = 500 /\ res'[r].error = <<>>
               ELSE res'[r].status = 200 /\ res'[r].data = catalog.items]_vars

\* a GET /perfumes answered 500 while the catalog cannot be read
PerfumesFailedWitness ==
  \E r \in ReqIds :
    /\ IsPerfumes(r) /\ Answered(r)
    /\ catalog.kind = "absent"
    /\ res[r].status = 500
    /\ res[r].message = "Error reading perfumes.json"

\* an environment variable that is set to a non-empty string
IsSet(v) == v.t = "str" /\ v.s # ""

\* C16: a notification is dispatched only when both email credentials are
\* set, only for an order whose row has been written, and at most once per
\* request (the dispatch goes from none to pending once, and from pending to
\* sent or failed); a request answered 400, 404 or 500 has no dispatch.
NotificationGated ==
  /\ [](\A r \in ReqIds :
          /\ mail[r] # "none" =>
               /\ IsSet(env.EMAIL_USER) /\ IsSet(env.EMAIL_PASS)
               /\ IsOrder(r) /\ saved[r] /\ writes[r] = 1
          /\ res[r].status \in {400, 404, 500} => mail[r] = "none")
  /\ [][\A r \in ReqIds :
          mail'[r] # mail[r] =>
            \/ mail[r] = "none" /\ mail'[r] = "pending" /\ ~saved[r] /\ saved'[r]
            \/ mail[r] = "pending" /\ mail'[r] \in {"sent", "failed"}]_vars

\* one order notified after its row was written, another answered 500 with
\* no dispatch, both credentials set
NotificationGatedWitness ==
  \E r1, r2 \in ReqIds :
    /\ IsSet(env.EMAIL_USER) /\ IsSet(env.EMAIL_PASS)
    /\ mail[r1] = "sent" /\ saved[r1] /\ res[r1].status = 200
    /\ IsOrder(r2) /\ res[r2].status = 500 /\ mail[r2] = "none"

\* the requests whose row has been written
Written == {r \in ReqIds : saved[r]}

\* the rows the store held before the first request
EarlierRows == Len(file.rows) - Cardinality(Written)

\* C17: when orders are handled one after another on a store with the
\* canonical schema, the store holds the rows it held before followed by one
\* seven-cell row per successful request, in request order; each successful
\* write adds exactly one row at the end and leaves every earlier row
\* unchanged in its position, and no other step of a request changes a row.
SequentialAppend ==
  /\ [](file.kind = "xlsx" =>
          /\ EarlierRows \in {0, 1}
          /\ EarlierRows = 1 => file.rows[1] = EarlierRow
          /\ \A r \in Written :
               LET pos == EarlierRows + Cardinality({q \in Written : q <= r})
               IN /\ Len(file.rows[pos]) = 7
                  /\ file.rows[pos][1] = req[r].body.name
                  /\ file.rows[pos][3].s = toString(req[r].body.perfumeId)
                  /\ file.rows[pos][7] = orderData[r].date)
  /\ [][(phase = "serving" /\ file'.kind = "xlsx") =>
          /\ Len(file'.rows) = Len(file.rows) + Cardinality(Written') - Cardinality(Written)
          /\ Cardinality(Written') <= Cardinality(Written) + 1
          /\ \A i \in 1..Len(file.rows) : file'.rows[i] = file.rows[i]]_vars

\* two different orders, one after the other, behind an earlier row
SequentialAppendWitness ==
  /\ \A r \in ReqIds : r <= 2 => (saved[r] /\ res[r].status = 200)
  /\ req[1].body.name # req[2].body.name
  /\ Len(file.rows) >= 3
  /\ file.rows[1] = EarlierRow
  /\ file.rows[2][1] = req[1].body.name
  /\ file.rows[3][1] = req[2].body.name

\* the checkout ends in its catch block in this step
CheckoutFails == history' = Append(history, "failed")

\* the checkout ends with the cart cleared in this step
CheckoutSucceeds == history' = Append(history, "success")

\* C18: the checkout passes the lines of the cart array to the server one at
\* a time in array order, line j+1 only after line j was answered with
\* success; the cart is emptied and its localStorage entry removed only in the
\* step in which the last line is answered with success; a failing line ends
\* the checkout with no further line submitted and with cart, localStorage
\* and store as they were, so that the orders accepted before stay in the
\* store (as long as the store file is readable); and every checkout, a
\* retry included, starts again at the first line.
CheckoutAllOrNothing ==
  /\ [](/\ checkout.pc = "await" =>
             /\ Len(sentLines) = checkout.i
             /\ checkout.i <= Len(LoopArray)
             /\ Len(accepted) >= checkout.i - 1
             /\ \A j \in 1..checkout.i :
                  /\ sentLines[j].perfumeId = items[LoopArray[j]].id
                  /\ j < checkout.i =>
                       accepted[Len(accepted) - (checkout.i - 1) + j] = sentLines[j]
        /\ file.kind = "xlsx" =>
             /\ Len(file.rows) = Len(accepted) + (IF saved[1] THEN 1 ELSE 0)
             /\ \A j \in 1..Len(accepted) :
                  /\ file.rows[j][1] = accepted[j].name
                  /\ file.rows[j][3].s = toString(accepted[j].perfumeId)
                  /\ file.rows[j][5].s = toString(accepted[j].quantity))
  /\ [][/\ (localStorage.present /\ ~localStorage'.present) => CheckoutSucceeds
        /\ CheckoutSucceeds =>
             /\ cart' = <<>> /\ ~localStorage'.present
             /\ res[1].status = 200 /\ res[1].success
             /\ checkout.i = Len(LoopArray)
             /\ Len(accepted') >= Len(LoopArray)
             /\ \A j \in 1..Len(LoopArray) :
                  accepted'[Len(accepted') - Len(LoopArray) + j].perfumeId
                    = items[LoopArray[j]].id
        /\ CheckoutFails =>
             /\ cart' = cart /\ localStorage' = localStorage /\ items' = items
             /\ file' = file /\ accepted' = accepted
             /\ sentLines' = sentLines /\ Len(sentLines) = checkout.i
             /\ checkout'.pc = "idle"
        /\ (checkout.pc = "idle" /\ checkout'.pc = "await") =>
             /\ checkout'.i = 1
             /\ sentLines' = << LineBody(checkout'.form, items[cart[1]]) >>]_vars

\* a checkout of two lines failed at the second, its retry had the first line
\* accepted again: the store holds that order twice and the cart both lines
RetryDuplicatesWitness ==
  /\ history = << "failed" >>
  /\ checkout.pc = "await" /\ checkout.i = 2
  /\ Len(cart) = 2 /\ localStorage.present
  /\ Len(accepted) = 2 /\ accepted[1] = accepted[2]
  /\ file.kind = "xlsx" /\ Len(file.rows) = 2
  /\ file.rows[1][3] = file.rows[2][3]

\* the value under 'cart' in localStorage, read back, is the cart: nothing
\* stored reads as the empty cart
StoredIsCart ==
  IF localStorage.present
  THEN localStorage.text = JSONstringify(Entries(cart, items))
  ELSE cart = <<>>

\* C19: each product id is in the cart at most once, every entry has a
\* quantity of at least 1, every entry is a product of the loaded list (an
\* addToCart for any other id changes nothing), and localStorage holds the
\* cart.
CartWellFormed ==
  /\ [](/\ \A j, k \in 1..Len(cart) :
             j # k => items[cart[j]].id # items[cart[k]].id
        /\ \A k \in 1..Len(cart) :
             /\ items[cart[k]].quantity.t = "num"
             /\ items[cart[k]].quantity.n >= 1
             /\ \E i \in 1..Len(allProducts) : allProducts[i].id = items[cart[k]].id
        /\ StoredIsCart)
  /\ [][/\ Len(cart') > Len(cart) =>
             /\ cart' = Append(cart, Len(items'))
             /\ items' = Append(items, items'[Len(items')])
             /\ items'[Len(items')].quantity = Num(1)
             /\ \E i \in 1..Len(allProducts) :
                  allProducts[i].id = items'[Len(items')].id
        /\ \A ref \in 1..Len(items) :
             items'[ref] # items[ref] =>
               /\ items'[ref] = [items[ref] EXCEPT !.quantity = Num(@.n + 1)]
               /\ \E k \in 1..Len(cart) : cart[k] = ref
               /\ cart' = cart]_vars

\* a cart after additions and a removal: one entry added twice, another
\* added and removed
CartWitness ==
  /\ Len(cart) = 1 /\ Len(items) = 2
  /\ items[cart[1]].quantity = Num(2)
  /\ localStorage.present
  /\ localStorage.text = "[{\"id\":7,\"name\":\"Rose\",\"quantity\":2}]"

====
